---------------------------- MODULE Spec2Model ----------------------------
(***************************************************************************)
(* A model of the DNS message decoder of src/main.rs: the cursor buffer    *)
(* (BytePacketBuffer), the domain-name reader read_q_name with its         *)
(* compression jumps, and the header / question / record / packet          *)
(* decoders.  read_q_name is modelled one loop iteration per step; every   *)
(* other function is one step.                                             *)
(*                                                                         *)
(* A behaviour is one run of a driver on one buffer content:               *)
(*   - a packet run: DnsPacket::from_buffer from position 0;               *)
(*   - a name run: read_q_name at each position of a list, one after the   *)
(*     other, each into a fresh output string.                             *)
(* The variable input records how the buffer content was laid out, so that *)
(* the properties can speak about what was put on the wire.                *)
(***************************************************************************)
EXTENDS Integers, Sequences, FiniteSets, TLC

(***************************************************************************)
(* Program constants                                                       *)
(***************************************************************************)
\* buffer: [u8; 512]
Capacity == 512
\* let max_jumps = 5;
max_jumps == 5

(***************************************************************************)
(* Bounds of the explored inputs                                           *)
(***************************************************************************)
\* most labels in a generated name
MaxLabels == 2
\* most pointers in a generated pointer chain (the reads follow up to one more)
MaxChain == 6
\* most pointers in a generated pointer cycle
MaxCycle == 3
\* most bytes in a generated raw (unstructured) content
MaxRaw == 3
\* most records a generated header announces per section
MaxCount == 2

(***************************************************************************)
(* Machine arithmetic on unsigned integers                                 *)
(***************************************************************************)
RECURSIVE BitAnd(_, _)
BitAnd(x, y) ==
    IF x = 0 \/ y = 0 THEN 0
    ELSE (IF x % 2 = 1 /\ y % 2 = 1 THEN 1 ELSE 0) + 2 * BitAnd(x \div 2, y \div 2)

RECURSIVE BitOr(_, _)
BitOr(x, y) ==
    IF x = 0 THEN y
    ELSE IF y = 0 THEN x
    ELSE (IF x % 2 = 1 \/ y % 2 = 1 THEN 1 ELSE 0) + 2 * BitOr(x \div 2, y \div 2)

RECURSIVE BitXor(_, _)
BitXor(x, y) ==
    IF x = 0 THEN y
    ELSE IF y = 0 THEN x
    ELSE (IF (x % 2) # (y % 2) THEN 1 ELSE 0) + 2 * BitXor(x \div 2, y \div 2)

\* x << n on a w-bit unsigned integer
Shl(x, n, w) == (x * (2 ^ n)) % (2 ^ w)

\* x >> n
Shr(x, n) == x \div (2 ^ n)

(***************************************************************************)
(* Error values (Box<dyn Error> built from a message)                      *)
(***************************************************************************)
NoError == "none"
EndOfBuffer == "End of buffer"
EndOfBufferExceeded == "End of buffer exceeded"
JumpLimitExceeded == "Limit of 5 jumps was exceeded"

Ok(v, p) == [ok |-> TRUE, val |-> v, pos |-> p, err |-> NoError]
Err(e, p) == [ok |-> FALSE, val |-> 0, pos |-> p, err |-> e]

(***************************************************************************)
(* BytePacketBuffer: the primitives, as functions of the buffer content b  *)
(* and the read position p.  Each yields the value, the new position and   *)
(* the error if any.                                                       *)
(***************************************************************************)
\* BytePacketBuffer::new : zero-filled
ZeroBuffer == [i \in 0 .. Capacity - 1 |-> 0]

\* fn step(&mut self, steps)
step(p, steps) == Ok(0, p + steps)

\* fn seek(&mut self, pos)
seek(p, to) == Ok(0, to)

\* fn read(&mut self)
read(b, p) ==
    IF p >= Capacity THEN Err(EndOfBuffer, p)
    ELSE Ok(b[p], p + 1)

\* fn get(&mut self, pos)
get(b, at) ==
    IF at >= Capacity THEN Err(EndOfBuffer, 0)
    ELSE Ok(b[at], 0)

\* fn get_range(&mut self, start, length) : the slice as a sequence of bytes
get_range(b, start, length) ==
    IF start + length >= Capacity THEN Err(EndOfBufferExceeded, 0)
    ELSE Ok([i \in 1 .. length |-> b[start + i - 1]], 0)

\* F applied to the element of the singleton S: a value computed once and
\* then used by name, as a let binding of the code is
With(S, F(_)) == CHOOSE y \in {F(x) : x \in S} : TRUE

\* fn read_u16(&mut self)
read_u16(b, p) ==
    With({read(b, p)}, LAMBDA hi :
    IF ~hi.ok THEN hi
    ELSE With({read(b, hi.pos)}, LAMBDA lo :
    IF ~lo.ok THEN lo
    ELSE Ok(BitOr(Shl(hi.val, 8, 16), lo.val), lo.pos)))

\* fn read_u32(&mut self).  A u32 is held as the pair <<bits 31..16, bits
\* 15..0>> of its halves (TLC's integers end below 2^32):
\* (b3 << 24) | (b2 << 16) is the upper half (b3 << 8) | b2 moved up 16 bits.
read_u32(b, p) ==
    With({read(b, p)}, LAMBDA b3 :
    IF ~b3.ok THEN b3
    ELSE With({read(b, b3.pos)}, LAMBDA b2 :
    IF ~b2.ok THEN b2
    ELSE With({read(b, b2.pos)}, LAMBDA b1 :
    IF ~b1.ok THEN b1
    ELSE With({read(b, b1.pos)}, LAMBDA b0 :
    IF ~b0.ok THEN b0
    ELSE Ok(<<BitOr(Shl(b3.val, 8, 16), b2.val), BitOr(Shl(b1.val, 8, 16), b0.val)>>,
            b0.pos)))))

(***************************************************************************)
(* Text.  A String is modelled as its sequence of Unicode scalar values.   *)
(***************************************************************************)
ReplacementChar == 65533

\* String::from_utf8_lossy on a byte slice.  Exact for slices that hold no
\* UTF-8 lead byte 0xC2..0xF4 (every input explored here): an ASCII byte is
\* its own character, and each other byte is an invalid sequence of its own,
\* replaced by U+FFFD.
from_utf8_lossy(bytes) ==
    [i \in 1 .. Len(bytes) |-> IF bytes[i] < 128 THEN bytes[i] ELSE ReplacementChar]

\* str::to_lowercase on such a text: 'A'..'Z' map to 'a'..'z', every other
\* ASCII character and U+FFFD are unchanged.
to_lowercase(text) ==
    [i \in 1 .. Len(text) |-> IF text[i] >= 65 /\ text[i] <= 90 THEN text[i] + 32 ELSE text[i]]

\* "." and "" as texts
Dot == <<46>>
Empty == <<>>

(***************************************************************************)
(* Buffer contents.  The driver creates a zero-filled buffer and an        *)
(* external reader fills it (main: BytePacketBuffer::new, then f.read into *)
(* buffer.buffer); bytes that do not fit are not stored.                   *)
(***************************************************************************)
Put(b, o, s) ==
    [i \in 0 .. Capacity - 1 |-> IF i >= o /\ i < o + Len(s) THEN s[i - o + 1] ELSE b[i]]

\* wire encodings of the values a sender puts in a message (RFC 1035)
U16(v) == <<(v \div 256) % 256, v % 256>>
U32(v) == U16(v \div 65536) \o U16(v % 65536)
Pointer(off) == <<192 + (off \div 256), off % 256>>

RECURSIVE EncName(_)
EncName(labels) ==
    IF labels = <<>> THEN <<0>>
    ELSE <<Len(Head(labels))>> \o Head(labels) \o EncName(Tail(labels))

\* the labels of a name without its terminating zero byte
EncLabels(labels) == SubSeq(EncName(labels), 1, Len(EncName(labels)) - 1)

\* sequences over S of length 0 .. n
RECURSIVE SeqsUpTo(_, _)
SeqsUpTo(S, n) ==
    IF n = 0 THEN {<<>>}
    ELSE LET shorter == SeqsUpTo(S, n - 1) IN
         shorter \cup {Append(s, x) : s \in shorter, x \in S}

\* the labels names are made of: "A", "bA", a label whose first byte has the
\* two top bits set, and a label of the greatest length, 63
LabelPool == {<<65>>, <<98, 65>>, <<192, 90>>, [i \in 1 .. 63 |-> 77]}
Names == SeqsUpTo(LabelPool, MaxLabels)

\* the bytes raw contents are made of: the terminator, a length 1, a length
\* byte with the top bits 01, and two bytes with both top bits set
RawBytes == {0, 1, 64, 192, 255}
Raws == SeqsUpTo(RawBytes, MaxRaw) \ {<<>>}

\* the label a chain link may carry before its pointer: "W"
LinkLabel == <<1, 87>>
LinkBytes(pre, target) == (IF pre THEN LinkLabel ELSE <<>>) \o Pointer(target)
LinkSize(pre) == IF pre THEN 4 ELSE 2

\* An input: how the buffer content is laid out.  Every kind uses the
\* fields it needs and leaves the others at their default.
DefaultInput ==
    [kind |-> "plain", labels |-> <<>>, n |-> 0, pre |-> FALSE, at |-> 0,
     raw |-> <<>>, hdr |-> <<>>, rtype |-> 0, rlen |-> 0, ttl |-> 0, prior |-> Empty]

\* kind "plain": the name labels, whole, at offset at.  prior is what the
\* output string holds before the read.
PlainInputs ==
    UNION {{[DefaultInput EXCEPT !.kind = "plain", !.labels = l, !.at = a, !.prior = p] :
                a \in {0, 12, Capacity - Len(EncName(l))}, p \in {Empty, <<120>>}} :
           l \in Names}

\* kind "truncated": the name labels at the very end of the buffer, its
\* terminating zero byte not fitting any more.
TruncatedInputs ==
    {[DefaultInput EXCEPT !.kind = "truncated", !.labels = l,
                          !.at = Capacity - Len(EncName(l)) + 1] : l \in Names}

\* kind "chain": the name labels at offset at; after it n links, link 1
\* pointing to the name and link i+1 to link i, each link a pointer, with
\* the label "W" before it if pre; after the links a lone pointer to link n
\* (to the name if n = 0).  The whole fits in the buffer.
ChainLink(in, i) == in.at + Len(EncName(in.labels)) + (i - 1) * LinkSize(in.pre)
ChainTarget(in, i) == IF i = 1 THEN in.at ELSE ChainLink(in, i - 1)
ChainLast(in) == ChainLink(in, in.n + 1)
ChainInputs ==
    {in \in {[DefaultInput EXCEPT !.kind = "chain", !.labels = l, !.n = k, !.pre = p,
                                  !.at = a] :
                l \in Names, k \in 0 .. MaxChain, p \in BOOLEAN, a \in {0, 300}} :
        ChainLast(in) + 2 <= Capacity}

RECURSIVE ChainBytes(_, _)
ChainBytes(in, i) ==
    IF i > in.n THEN Pointer(ChainTarget(in, i))
    ELSE LinkBytes(in.pre, ChainTarget(in, i)) \o ChainBytes(in, i + 1)

\* kind "cycle": n links from offset 0 on, link i pointing to link i+1 and
\* the last one to the first.
CycleInputs ==
    {[DefaultInput EXCEPT !.kind = "cycle", !.n = k, !.pre = p] :
        k \in 1 .. MaxCycle, p \in BOOLEAN}

RECURSIVE CycleBytes(_, _)
CycleBytes(in, i) ==
    IF i >= in.n THEN <<>>
    ELSE LinkBytes(in.pre, ((i + 1) % in.n) * LinkSize(in.pre)) \o CycleBytes(in, i + 1)

\* kind "raw": the bytes raw at offset at, read as a name from there.
RawInputs ==
    UNION {{[DefaultInput EXCEPT !.kind = "raw", !.raw = r, !.at = a] :
                a \in {0, Capacity - Len(r)}} :
           r \in Raws}

NameInputs == PlainInputs \cup TruncatedInputs \cup ChainInputs \cup CycleInputs \cup RawInputs

\* the 12 bytes of a header
HeaderBytes(id, a, b, qd, an, ns, ar) ==
    U16(id) \o <<a, b>> \o U16(qd) \o U16(an) \o U16(ns) \o U16(ar)

FlagsA == {0, 1, 2, 4, 8, 120, 128, 129, 255}
FlagsB == {0, 1, 2, 3, 4, 5, 6, 15, 16, 32, 64, 128, 255}

\* kind "header": a header, the rest of the buffer zero.
HeaderInputs ==
    {[DefaultInput EXCEPT !.kind = "header", !.hdr = h] :
        h \in {HeaderBytes(id, a, b, 1, 1, 0, 0) :
                  id \in {4884, 65535}, a \in FlagsA, b \in FlagsB}
              \cup {HeaderBytes(4884, 129, 128, qd, an, ns, ar) :
                  qd \in 0 .. MaxCount, an \in 0 .. MaxCount,
                  ns \in 0 .. MaxCount, ar \in 0 .. MaxCount}
              \cup {HeaderBytes(4884, 129, 128, 256, 0, 0, 0),
                    HeaderBytes(4884, 129, 128, 0, 0, 65535, 0)}}

\* kind "message": a response as a server sends it.  Header id 0x1314,
\* flags 0x81 0x80, counts 1/1/0/0; one question for the name labels, type
\* 1, class 1; one answer whose name is a pointer to the question's name
\* (offset 12), or the labels again if pre, then type rtype, class 1, ttl,
\* data length rlen and rlen data bytes 8.
MessageInputs ==
    {[DefaultInput EXCEPT !.kind = "message", !.labels = l, !.pre = p,
                          !.rtype = t, !.rlen = d, !.ttl = s] :
        l \in Names \ {<<>>}, p \in BOOLEAN, t \in {1, 28}, d \in {0, 4, 16},
        s \in {60, 600}}

MessageBytes(in) ==
    HeaderBytes(4884, 129, 128, 1, 1, 0, 0)
    \o EncName(in.labels) \o U16(1) \o U16(1)
    \o (IF in.pre THEN EncName(in.labels) ELSE Pointer(12))
    \o U16(in.rtype) \o U16(1) \o U32(in.ttl) \o U16(in.rlen)
    \o [i \in 1 .. in.rlen |-> 8]

\* where the parts of a message lie
AnswerStart(in) == 12 + Len(EncName(in.labels)) + 4
AnswerDataStart(in) ==
    AnswerStart(in) + (IF in.pre THEN Len(EncName(in.labels)) ELSE 2) + 10

\* kind "rawpacket": a header announcing n questions and rtype answers, and
\* the bytes raw at offset at.
RawPacketInputs ==
    {[DefaultInput EXCEPT !.kind = "rawpacket", !.n = q, !.rtype = an, !.raw = r, !.at = a] :
        q \in 0 .. 1, an \in 0 .. 1, r \in Raws, a \in {12, 20}}

PacketInputs == HeaderInputs \cup MessageInputs \cup RawPacketInputs

IsPacket(in) == in.kind \in {"header", "message", "rawpacket"}

\* the content of the buffer for an input
Fill(in) ==
    CASE in.kind = "plain" -> Put(ZeroBuffer, in.at, EncName(in.labels))
      [] in.kind = "truncated" -> Put(ZeroBuffer, in.at, EncLabels(in.labels))
      [] in.kind = "chain" ->
            Put(Put(ZeroBuffer, in.at, EncName(in.labels)), ChainLink(in, 1), ChainBytes(in, 1))
      [] in.kind = "cycle" -> Put(ZeroBuffer, 0, CycleBytes(in, 0))
      [] in.kind = "raw" -> Put(ZeroBuffer, in.at, in.raw)
      [] in.kind = "header" -> Put(ZeroBuffer, 0, in.hdr)
      [] in.kind = "message" -> Put(ZeroBuffer, 0, MessageBytes(in))
      [] in.kind = "rawpacket" ->
            Put(Put(ZeroBuffer, 0, HeaderBytes(4884, 129, 128, in.n, in.rtype, 0, 0)),
                in.at, in.raw)

\* the positions a name run reads at, in order
Reads(in) ==
    CASE in.kind = "chain" -> <<ChainTarget(in, in.n + 1), ChainLast(in)>>
      [] in.kind = "cycle" -> <<0>>
      [] OTHER -> <<in.at>>

(***************************************************************************)
(* read_q_name: one iteration of its loop, and what follows the loop       *)
(***************************************************************************)
\* the limit test one jump too early
OverJumpLimit_AtLimit(jumps) == jumps >= max_jumps

\* if jumps_performed > max_jumps
OverJumpLimit(jumps) == jumps > max_jumps

\* if (len & 0xC0) == 0xC0
IsJump(len) == BitAnd(len, 192) = 192

\* (((len as u16) ^ 0xC0) << 8) | len_second
JumpOffset(len, len_second) == BitOr(Shl(BitXor(len, 192), 8, 16), len_second)

\* the seek without its condition
SeekAlways(was_jumped, p, to) == seek(p, to).pos

\* if !jumped { self.seek(..) } : the read position after the conditional seek
SeekUnlessJumped(was_jumped, p, to) == IF was_jumped THEN p ELSE seek(p, to).pos

\* the count forgotten
CountJump_Forgotten(jumps) == jumps

\* jumps_performed += 1
CountJump(jumps) == jumps + 1

\* the length byte not stepped over
AfterLabel_NoLengthByte(at, len) == at + len

\* pos += len as usize, after pos += 1
AfterLabel(at, len) == at + 1 + len

\* the state of a call of read_q_name: the real cursor, the locals, the
\* output string and where the call stands (in its loop, returned Ok,
\* returned Err)
NameState(at, p, j, n, d, out, st, e) ==
    [position |-> p, pos |-> at, jumped |-> j, jumps_performed |-> n,
     delimiter |-> d, outstring |-> out, status |-> st, err |-> e]

read_q_name_iteration(b, s) ==
    IF OverJumpLimit(s.jumps_performed)
    THEN [s EXCEPT !.status = "err", !.err = JumpLimitExceeded]
    ELSE
    With({get(b, s.pos)}, LAMBDA len :
    IF ~len.ok THEN [s EXCEPT !.status = "err", !.err = len.err]
    ELSE IF IsJump(len.val)
    THEN With({SeekUnlessJumped(s.jumped, s.position, s.pos + 2)}, LAMBDA p :
         With({get(b, s.pos + 1)}, LAMBDA len_second :
         IF ~len_second.ok
         THEN [s EXCEPT !.position = p, !.status = "err", !.err = len_second.err]
         ELSE [s EXCEPT !.position = p,
                        !.pos = JumpOffset(len.val, len_second.val),
                        !.jumped = TRUE,
                        !.jumps_performed = CountJump(s.jumps_performed)]))
    ELSE IF len.val = 0
    THEN \* break, then the code after the loop
         [s EXCEPT !.pos = s.pos + 1,
                   !.position = SeekUnlessJumped(s.jumped, s.position, s.pos + 1),
                   !.status = "ok"]
    ELSE With({get_range(b, s.pos + 1, len.val)}, LAMBDA string_buffer :
         IF ~string_buffer.ok
         THEN [s EXCEPT !.pos = s.pos + 1,
                        !.outstring = s.outstring \o s.delimiter,
                        !.status = "err", !.err = string_buffer.err]
         ELSE [s EXCEPT !.pos = AfterLabel(s.pos, len.val),
                        !.outstring = s.outstring \o s.delimiter
                                      \o to_lowercase(from_utf8_lossy(string_buffer.val)),
                        !.delimiter = Dot]))

(***************************************************************************)
(* ResultCode, DnsHeader, QueryType, DnsRecord                             *)
(***************************************************************************)
ResultCode_from_num(num) ==
    CASE num = 1 -> "FORMERR"
      [] num = 2 -> "SERVFAIL"
      [] num = 3 -> "NXDOMAIN"
      [] num = 4 -> "NOTIMP"
      [] num = 5 -> "REFUSED"
      [] OTHER -> "NOERROR"

DnsHeader_new ==
    [id |-> 0,
     recursion_desired |-> FALSE, truncated_message |-> FALSE,
     authoritative_answer |-> FALSE, opcode |-> 0, response |-> FALSE,
     result_code |-> "NOERROR", checking_disabled |-> FALSE, authed_data |-> FALSE,
     z |-> FALSE, recursion_available |-> FALSE,
     questions |-> 0, answers |-> 0, authoritative_entries |-> 0, resource_entries |-> 0]

\* (x & (1 << n)) > 0
BitSet(x, n) == BitAnd(x, Shl(1, n, 8)) > 0

\* the opcode cut to three bits
Opcode_ThreeBits(a) == BitAnd(Shr(a, 3), 7)

\* (a >> 3) & 0x0F
Opcode(a) == BitAnd(Shr(a, 3), 15)

\* the fields DnsHeader::read takes from the flags word
HeaderFlags(h, flags) ==
    LET a == Shr(flags, 8)
        b == BitAnd(flags, 255)
    IN  [h EXCEPT !.recursion_desired = BitSet(a, 0),
                  !.truncated_message = BitSet(a, 1),
                  !.authoritative_answer = BitSet(a, 2),
                  !.opcode = Opcode(a),
                  !.response = BitSet(a, 7),
                  !.result_code = ResultCode_from_num(BitAnd(b, 15)),
                  !.checking_disabled = BitSet(b, 4),
                  !.authed_data = BitSet(b, 5),
                  !.z = BitSet(b, 6),
                  !.recursion_available = BitSet(b, 7)]

\* the four counts, in the order DnsHeader::read reads them
HeaderCounts(h, c1, c2, c3, c4) ==
    [h EXCEPT !.questions = c1, !.answers = c2,
              !.authoritative_entries = c3, !.resource_entries = c4]

\* DnsHeader::read : val is the header as far as it was read
DnsHeader_read(h, b, p) ==
    With({read_u16(b, p)}, LAMBDA id :
    IF ~id.ok THEN [id EXCEPT !.val = h]
    ELSE With({[h EXCEPT !.id = id.val]}, LAMBDA h1 :
         With({read_u16(b, id.pos)}, LAMBDA flags :
    IF ~flags.ok THEN [flags EXCEPT !.val = h1]
    ELSE With({HeaderFlags(h1, flags.val)}, LAMBDA h2 :
         With({read_u16(b, flags.pos)}, LAMBDA c1 :
    IF ~c1.ok THEN [c1 EXCEPT !.val = h2]
    ELSE With({read_u16(b, c1.pos)}, LAMBDA c2 :
    IF ~c2.ok THEN [c2 EXCEPT !.val = h2]
    ELSE With({read_u16(b, c2.pos)}, LAMBDA c3 :
    IF ~c3.ok THEN [c3 EXCEPT !.val = h2]
    ELSE With({read_u16(b, c3.pos)}, LAMBDA c4 :
    IF ~c4.ok THEN [c4 EXCEPT !.val = h2]
    ELSE Ok(HeaderCounts(h2, c1.val, c2.val, c3.val, c4.val), c4.pos)))))))))

\* QueryType: <<"A">> or <<"UNKNOWN", code>>
QueryType_from_num(num) == IF num = 1 THEN <<"A">> ELSE <<"UNKNOWN", num>>

\* Ipv4Addr::new of the four octets of raw_address (a pair of halves):
\* >> 24 and >> 16 take from the upper half, >> 8 and no shift from the lower
Ipv4Addr(raw_address) ==
    <<BitAnd(Shr(raw_address[1], 8), 255), BitAnd(raw_address[1], 255),
      BitAnd(Shr(raw_address[2], 8), 255), BitAnd(raw_address[2], 255)>>

\* buffer.step(data_length as usize)
SkipData(p, data_length) == step(p, data_length)

\* DnsRecord::read.  domain is String::new() and nothing is read into it:
\* the first bytes read are the type code's.
DnsRecord_read(b, p) ==
    With({Empty}, LAMBDA domain :
    With({read_u16(b, p)}, LAMBDA qtype_number :
    IF ~qtype_number.ok THEN qtype_number
    ELSE With({read_u16(b, qtype_number.pos)}, LAMBDA class :
    IF ~class.ok THEN class
    ELSE With({read_u32(b, class.pos)}, LAMBDA ttl :
    IF ~ttl.ok THEN ttl
    ELSE With({read_u16(b, ttl.pos)}, LAMBDA data_length :
    IF ~data_length.ok THEN data_length
    ELSE IF QueryType_from_num(qtype_number.val) = <<"A">>
    THEN With({read_u32(b, data_length.pos)}, LAMBDA raw_address :
         IF ~raw_address.ok THEN raw_address
         ELSE Ok([variant |-> "A", domain |-> domain,
                  address |-> Ipv4Addr(raw_address.val), ttl |-> ttl.val],
                 raw_address.pos))
    ELSE With({SkipData(data_length.pos, data_length.val)}, LAMBDA skipped :
         IF ~skipped.ok THEN skipped
         ELSE Ok([variant |-> "UNKNOWN", domain |-> domain,
                  qtype |-> qtype_number.val, data_len |-> data_length.val,
                  ttl |-> ttl.val],
                 skipped.pos)))))))

(***************************************************************************)
(* The state                                                               *)
(***************************************************************************)
VARIABLES
    buffer,            \* BytePacketBuffer.buffer
    position,          \* BytePacketBuffer.position
    pc,                \* where the run stands
    failure,           \* the error the run or the last name read ended with
    pos,               \* read_q_name: let mut pos
    jumped,            \* read_q_name: let mut jumped
    jumps_performed,   \* read_q_name: let mut jumps_performed
    delimiter,         \* read_q_name: let mut delimiter
    outstring,         \* read_q_name: outstring (DnsQuestion.name in a packet run)
    header,            \* DnsPacket.header
    questions,         \* DnsPacket.questions
    answers,           \* DnsPacket.answers
    authorities,       \* DnsPacket.authorities
    resources,         \* DnsPacket.resources
    input,             \* how the buffer content was laid out
    todo,              \* name run: the positions still to read at
    first              \* name run: how the read before this one ended

vars == <<buffer, position, pc, failure, pos, jumped, jumps_performed, delimiter,
          outstring, header, questions, answers, authorities, resources,
          input, todo, first>>

nameLocals == <<pos, jumped, jumps_performed, delimiter>>
packet == <<header, questions, answers, authorities, resources>>

NoRead ==
    [done |-> FALSE, failure |-> NoError, outstring |-> Empty, position |-> 0,
     jumps_performed |-> 0]

InitWith(inputs) ==
    /\ input \in inputs
    /\ buffer = Fill(input)
    /\ failure = NoError
    /\ pos = 0
    /\ jumped = FALSE
    /\ jumps_performed = 0
    /\ delimiter = Empty
    \* DnsPacket::new
    /\ header = DnsHeader_new
    /\ questions = <<>>
    /\ answers = <<>>
    /\ authorities = <<>>
    /\ resources = <<>>
    /\ first = NoRead
    /\ IF IsPacket(input)
       THEN /\ position = 0
            /\ pc = "from_buffer"
            /\ outstring = Empty
            /\ todo = <<>>
       ELSE /\ position = Head(Reads(input))
            /\ pc = "test_call"
            /\ outstring = input.prior
            /\ todo = Tail(Reads(input))

Init == InitWith(NameInputs \cup PacketInputs)

(***************************************************************************)
(* DnsPacket::from_buffer                                                  *)
(***************************************************************************)
\* the answers loop bounded by the questions count
SectionCount_AnswersByQuestions(h, section) ==
    CASE section = "question" -> h.questions
      [] section = "answers" -> h.questions
      [] section = "authorities" -> h.authoritative_entries
      [] section = "resources" -> h.resource_entries

\* the bound of the for loop of each section
SectionCount(h, section) ==
    CASE section = "question" -> h.questions
      [] section = "answers" -> h.answers
      [] section = "authorities" -> h.authoritative_entries
      [] section = "resources" -> h.resource_entries

\* where from_buffer goes on: the four for loops in their order, each
\* running until its sequence holds as many entries as the header counts
NextSection(h, q, an, ns, ar) ==
    IF Len(q) < SectionCount(h, "question") THEN "question"
    ELSE IF Len(an) < SectionCount(h, "answers") THEN "answers"
    ELSE IF Len(ns) < SectionCount(h, "authorities") THEN "authorities"
    ELSE IF Len(ar) < SectionCount(h, "resources") THEN "resources"
    ELSE "done"

\* result.header.read(buffer)?
ReadHeader ==
    /\ pc = "from_buffer"
    /\ \E r \in {DnsHeader_read(header, buffer, position)} :
       /\ position' = r.pos
       /\ header' = r.val
       /\ failure' = r.err
       /\ pc' = IF r.ok THEN NextSection(r.val, questions, answers, authorities, resources)
                ELSE "done"
    /\ UNCHANGED <<buffer, nameLocals, outstring, questions, answers, authorities,
                   resources, input, todo, first>>

\* DnsQuestion::new("", UNKNOWN(0)); question.read(buffer): up to the loop
\* of read_q_name
BeginQuestion ==
    /\ pc = "question"
    /\ outstring' = Empty
    /\ pos' = position
    /\ jumped' = FALSE
    /\ jumps_performed' = 0
    /\ delimiter' = Empty
    /\ pc' = "read_q_name"
    /\ UNCHANGED <<buffer, position, failure, packet, input, todo, first>>

\* one iteration of the loop of read_q_name; the iteration that leaves the
\* loop also returns to the caller
NameIteration ==
    /\ pc = "read_q_name"
    /\ \E s \in {read_q_name_iteration(buffer,
                    NameState(pos, position, jumped, jumps_performed, delimiter,
                              outstring, "loop", NoError))} :
       /\ position' = s.position
       /\ pos' = s.pos
       /\ jumped' = s.jumped
       /\ jumps_performed' = s.jumps_performed
       /\ delimiter' = s.delimiter
       /\ outstring' = s.outstring
       /\ failure' = s.err
       /\ pc' = CASE s.status = "loop" -> "read_q_name"
                  [] s.status = "ok" -> IF IsPacket(input) THEN "question_rest" ELSE "test_ret"
                  [] s.status = "err" -> IF IsPacket(input) THEN "done" ELSE "test_ret"
    /\ UNCHANGED <<buffer, packet, input, todo, first>>

\* DnsQuestion::read after read_q_name, and result.questions.push(question)
FinishQuestion ==
    /\ pc = "question_rest"
    /\ \E qtype \in {read_u16(buffer, position)} :
       IF ~qtype.ok
       THEN /\ position' = qtype.pos
            /\ failure' = qtype.err
            /\ pc' = "done"
            /\ UNCHANGED questions
       ELSE \E class \in {read_u16(buffer, qtype.pos)} :
            IF ~class.ok
            THEN /\ position' = class.pos
                 /\ failure' = class.err
                 /\ pc' = "done"
                 /\ UNCHANGED questions
            ELSE /\ position' = class.pos
                 /\ questions' = Append(questions,
                        [name |-> outstring, qtype |-> QueryType_from_num(qtype.val)])
                 /\ pc' = NextSection(header, questions', answers, authorities, resources)
                 /\ UNCHANGED failure
    /\ UNCHANGED <<buffer, nameLocals, outstring, header, answers, authorities,
                   resources, input, todo, first>>

\* let answer = DnsRecord::read(buffer)?; result.answers.push(answer);
ReadAnswer ==
    /\ pc = "answers"
    /\ \E r \in {DnsRecord_read(buffer, position)} :
       /\ position' = r.pos
       /\ failure' = r.err
       /\ answers' = IF r.ok THEN Append(answers, r.val) ELSE answers
       /\ pc' = IF r.ok THEN NextSection(header, questions, answers', authorities, resources)
                ELSE "done"
    /\ UNCHANGED <<buffer, nameLocals, outstring, header, questions, authorities,
                   resources, input, todo, first>>

\* let authorities = DnsRecord::read(buffer)?; result.authorities.push(authorities);
ReadAuthority ==
    /\ pc = "authorities"
    /\ \E r \in {DnsRecord_read(buffer, position)} :
       /\ position' = r.pos
       /\ failure' = r.err
       /\ authorities' = IF r.ok THEN Append(authorities, r.val) ELSE authorities
       /\ pc' = IF r.ok THEN NextSection(header, questions, answers, authorities', resources)
                ELSE "done"
    /\ UNCHANGED <<buffer, nameLocals, outstring, header, questions, answers,
                   resources, input, todo, first>>

\* let entries = DnsRecord::read(buffer)?; result.resources.push(entries);
ReadResource ==
    /\ pc = "resources"
    /\ \E r \in {DnsRecord_read(buffer, position)} :
       /\ position' = r.pos
       /\ failure' = r.err
       /\ resources' = IF r.ok THEN Append(resources, r.val) ELSE resources
       /\ pc' = IF r.ok THEN NextSection(header, questions, answers, authorities, resources')
                ELSE "done"
    /\ UNCHANGED <<buffer, nameLocals, outstring, header, questions, answers,
                   authorities, input, todo, first>>

(***************************************************************************)
(* The name run: read_q_name called directly                               *)
(***************************************************************************)
\* read_q_name up to its loop
CallName ==
    /\ pc = "test_call"
    /\ pos' = position
    /\ jumped' = FALSE
    /\ jumps_performed' = 0
    /\ delimiter' = Empty
    /\ pc' = "read_q_name"
    /\ UNCHANGED <<buffer, position, failure, outstring, packet, input, todo, first>>

\* after a read: seek to the next position to read at, with a fresh string
NextRead ==
    /\ pc = "test_ret"
    /\ todo # <<>>
    /\ first' = [done |-> TRUE, failure |-> failure, outstring |-> outstring,
                 position |-> position, jumps_performed |-> jumps_performed]
    /\ position' = seek(position, Head(todo)).pos
    /\ todo' = Tail(todo)
    /\ outstring' = Empty
    /\ failure' = NoError
    /\ pc' = "test_call"
    /\ UNCHANGED <<buffer, nameLocals, packet, input>>

Next ==
    \/ ReadHeader
    \/ BeginQuestion
    \/ NameIteration
    \/ FinishQuestion
    \/ ReadAnswer
    \/ ReadAuthority
    \/ ReadResource
    \/ CallName
    \/ NextRead

Spec == Init /\ [][Next]_vars

\* the run is over
Halted == pc = "done" \/ (pc = "test_ret" /\ todo = <<>>)

\* The inputs the runs are followed to their end on: every cycle, every
\* raw content as a name, those of up to 2 bytes in a packet, chains of
\* every length to names
\* of at most one label, such names alone and in messages, and every
\* header with the flags 0x81 0x80, among them those that announce more
\* records than the buffer can hold.
FollowedToEnd(in) ==
    CASE in.kind \in {"cycle", "raw"} -> TRUE
      [] in.kind = "rawpacket" -> Len(in.raw) <= 2
      [] in.kind = "chain" -> Len(in.labels) <= 1 /\ in.at = 0
      [] in.kind \in {"plain", "truncated"} -> Len(in.labels) <= 1 /\ in.prior = Empty
      [] in.kind = "header" -> in.hdr[3] = 129 /\ in.hdr[4] = 128
      [] in.kind = "message" -> Len(in.labels) <= 1

TermInit == InitWith({in \in NameInputs \cup PacketInputs : FollowedToEnd(in)})

\* The decoder is sequential code with no suspension point: a step that can
\* be taken is taken.
FairSpec == TermInit /\ [][Next]_vars /\ WF_vars(Next)

(***************************************************************************)
(* Properties                                                              *)
(***************************************************************************)
OutOfBounds == {EndOfBuffer, EndOfBufferExceeded}

\* a packet run has returned Ok
Decoded == pc = "done" /\ IsPacket(input) /\ failure = NoError

\* the text a sender means by the labels of a name: each byte as a
\* character, upper-case letters lowered, bytes that are no text replaced,
\* the labels joined by dots
ExpectedChar(byte) ==
    IF byte \in 65 .. 90 THEN byte + 32
    ELSE IF byte < 128 THEN byte
    ELSE 65533

ExpectedLabel(label) == [i \in 1 .. Len(label) |-> ExpectedChar(label[i])]

RECURSIVE DotJoined(_)
DotJoined(labels) ==
    IF labels = <<>> THEN <<>>
    ELSE IF Len(labels) = 1 THEN ExpectedLabel(labels[1])
    ELSE ExpectedLabel(labels[1]) \o <<46>> \o DotJoined(Tail(labels))

\* C1: a message with counts 1/1/0/0, one question and one address-type
\* answer whose name is a pointer to the question's name decodes, and the
\* question and the answer report the same name.
C1_AnswerNameIsQuestionName ==
    (pc = "done" /\ input.kind = "message" /\ ~input.pre /\ input.rtype = 1
        /\ input.rlen = 4)
    => /\ failure = NoError
       /\ Len(questions) = 1
       /\ Len(answers) = 1
       /\ answers[1].domain = questions[1].name

\* C2: after a successful decode each of the four sequences holds as many
\* entries as the header counts.
C2_CountsAgree ==
    Decoded
    => /\ Len(questions) = header.questions
       /\ Len(answers) = header.answers
       /\ Len(authorities) = header.authoritative_entries
       /\ Len(resources) = header.resource_entries

C2_Witness ==
    /\ Decoded
    /\ Len(questions) = 2
    /\ Len(answers) = 1
    /\ Len(authorities) = 2
    /\ Len(resources) = 1

\* C3: the read position stays within [0, 512].
C3_PositionInBuffer == position >= 0 /\ position <= 512

\* a record read is about to skip the data of an unknown-type record, and
\* the data length it reads runs past the end of the buffer
SkipsPastEnd ==
    /\ pc \in {"answers", "authorities", "resources"}
    /\ position + 10 <= 512
    /\ buffer[position] * 256 + buffer[position + 1] # 1
    /\ position + 10 + buffer[position + 8] * 256 + buffer[position + 9] > 512

\* C4: a skip that would push the position past the capacity is rejected
\* with an out-of-bounds error.
C4_SkipPastEndRejected == [][SkipsPastEnd => failure' \in OutOfBounds]_vars

\* C5: a name of valid labels and a terminating zero, without pointer, is
\* read as its dot-joined lowered labels, appended to the output, and the
\* cursor is left one past the zero byte.
C5_PlainName ==
    /\ (input.kind = "plain" /\ pc = "test_ret")
       => /\ failure = NoError
          /\ outstring = input.prior \o DotJoined(input.labels)
          /\ position = input.at + Len(EncName(input.labels))
    /\ (input.kind = "message" /\ pc = "question_rest")
       => /\ outstring = DotJoined(input.labels)
          /\ position = 12 + Len(EncName(input.labels))

C5_Witness ==
    /\ input.kind = "plain"
    /\ pc = "test_ret"
    /\ Len(input.labels) = 2
    /\ input.labels[1] = <<98, 65>>
    /\ input.prior # Empty
    /\ position = 512

\* the second read of a chain input, the one at the lone pointer, is over,
\* and the first read, at the pointer's target, had succeeded
PointerReadOver ==
    /\ input.kind = "chain"
    /\ pc = "test_ret"
    /\ todo = <<>>
    /\ first.done
    /\ first.failure = NoError

\* C6 as stated: a lone pointer to a valid name reads as the name at its
\* target does, and the cursor ends 2 past the pointer's start.
C6_PointerReadsAsTarget ==
    PointerReadOver
    => /\ failure = NoError
       /\ outstring = first.outstring
       /\ position = ChainLast(input) + 2

\* C6 as amended: so it is when reading the target follows at most 4
\* pointers; when it follows 5 the read at the pointer fails with the
\* jump-limit error.  Either way the cursor ends 2 past the pointer's
\* start, and no step of a name read moves it once a jump was made.
C6_PointerWithinLimit ==
    /\ [](PointerReadOver
          => /\ position = ChainLast(input) + 2
             /\ IF first.jumps_performed <= 4
                THEN failure = NoError /\ outstring = first.outstring
                ELSE failure = JumpLimitExceeded)
    /\ [][(pc = "read_q_name" /\ jumped) => position' = position]_vars

C6_Witness ==
    /\ PointerReadOver
    /\ first.jumps_performed = 4
    /\ jumps_performed = 5
    /\ failure = NoError
    /\ input.pre
    /\ Len(input.labels) = 2

\* the pointers on the path of the read that is over: a chain's read at
\* link n follows n, its read at the lone pointer one more
PointersOnPath == IF todo = <<>> THEN input.n + 1 ELSE input.n

\* C7: a read that follows more than 5 pointers, as any read into a cycle
\* of pointers does, fails with the jump-limit error; a read that follows
\* exactly 5 and ends in labels succeeds.
C7_JumpLimit ==
    /\ (input.kind = "cycle" /\ pc = "test_ret") => failure = JumpLimitExceeded
    /\ (input.kind = "chain" /\ pc = "test_ret")
       => /\ PointersOnPath > 5 => failure = JumpLimitExceeded
          /\ PointersOnPath = 5
             => /\ failure = NoError
                /\ outstring = DotJoined([i \in 1 .. (IF input.pre THEN input.n ELSE 0) |-> <<87>>]
                                         \o input.labels)

C7_Witness ==
    /\ input.kind = "chain"
    /\ pc = "test_ret"
    /\ todo # <<>>
    /\ input.n = 5
    /\ failure = NoError
    /\ input.at = 300

\* C8: every run ends, whatever the buffer holds.
C8_Terminates == <>Halted

C8_Witness ==
    /\ Halted
    /\ input.kind = "cycle"
    /\ input.pre
    /\ input.n = 2

\* C9: a record of a type other than 1 with data length L decodes to the
\* UNKNOWN variant with that type and L, and the cursor ends L past the
\* start of the record's data.
C9_UnknownRecord ==
    (pc = "done" /\ input.kind = "message" /\ input.rtype # 1)
    => /\ failure = NoError
       /\ Len(answers) = 1
       /\ answers[1].variant = "UNKNOWN"
       /\ answers[1].qtype = input.rtype
       /\ answers[1].data_len = input.rlen
       /\ position = AnswerDataStart(input) + input.rlen

\* the header was read and nothing after it yet
HeaderJustRead ==
    /\ IsPacket(input)
    /\ pc \in {"question", "answers", "authorities", "resources", "done"}
    /\ failure = NoError
    /\ questions = <<>> /\ answers = <<>> /\ authorities = <<>> /\ resources = <<>>

ExpectedResultCode(nibble) ==
    IF nibble = 0 \/ nibble \in 6 .. 15 THEN "NOERROR"
    ELSE <<"FORMERR", "SERVFAIL", "NXDOMAIN", "NOTIMP", "REFUSED">>[nibble]

\* bit n of a byte
Bit(byte, n) == (byte \div (2 ^ n)) % 2 = 1

\* C10: the header is the first 12 bytes, laid out as RFC 1035 has them.
C10_HeaderLayout ==
    /\ HeaderJustRead => position = 12
    /\ (IsPacket(input) /\ pc # "from_buffer")
       => /\ header.id = buffer[0] * 256 + buffer[1]
          /\ header.recursion_desired = Bit(buffer[2], 0)
          /\ header.truncated_message = Bit(buffer[2], 1)
          /\ header.authoritative_answer = Bit(buffer[2], 2)
          /\ header.opcode = (buffer[2] \div 8) % 16
          /\ header.response = Bit(buffer[2], 7)
          /\ header.result_code = ExpectedResultCode(buffer[3] % 16)
          /\ header.checking_disabled = Bit(buffer[3], 4)
          /\ header.authed_data = Bit(buffer[3], 5)
          /\ header.z = Bit(buffer[3], 6)
          /\ header.recursion_available = Bit(buffer[3], 7)
          /\ header.questions = buffer[4] * 256 + buffer[5]
          /\ header.answers = buffer[6] * 256 + buffer[7]
          /\ header.authoritative_entries = buffer[8] * 256 + buffer[9]
          /\ header.resource_entries = buffer[10] * 256 + buffer[11]
    /\ (IsPacket(input) /\ pc # "from_buffer"
            /\ [i \in 1 .. 12 |-> buffer[i - 1]] = <<19, 20, 129, 128, 0, 1, 0, 1, 0, 0, 0, 0>>)
       => /\ header.id = 4884
          /\ header.response /\ header.recursion_desired /\ header.recursion_available
          /\ ~header.truncated_message /\ ~header.authoritative_answer
          /\ header.questions = 1 /\ header.answers = 1
          /\ header.authoritative_entries = 0 /\ header.resource_entries = 0

C10_Witness ==
    /\ HeaderJustRead
    /\ position = 12
    /\ buffer[2] = 120
    /\ buffer[3] = 15
    /\ header.opcode = 15
    /\ header.result_code = "NOERROR"

====
